---- MODULE Spec2Model ----
(***************************************************************************)
(* mstickereditor: the command-line import of Telegram sticker packs       *)
(* (src/src/sub_commands/import.rs: run, import_pack) and the library's    *)
(* pack import (src/mstickerlib/src/tg/stickerpack.rs: StickerPack::get,   *)
(* StickerPack::import).                                                   *)
(*                                                                         *)
(* Spec starts either program: the command-line run (argument validation,  *)
(* then import_pack for every pack, its per-sticker closures running on    *)
(* rayon's worker pool), or the library's StickerPack::get followed by     *)
(* StickerPack::import (join_all over the sticker futures, then the        *)
(* partition into ok_stickers and err_stickers).                           *)
(***************************************************************************)
EXTENDS Integers, Sequences, FiniteSets, TLC

\* Bounds of the model.
MaxStickers == 2      \* at most this many stickers in a Telegram pack
MaxLines == 1         \* at most this many lines in the database file at start
MaxPacks == 2         \* at most this many pack arguments on the command line

(***************************************************************************)
(* Values.                                                                 *)
(***************************************************************************)

\* Payloads (Vec<u8>) are numbered.  WebpBytes is a well-formed webp file,
\* TgsBytes a gzip-compressed lottie document, CorruptBytes a download that
\* neither GzDecoder/Animation::from_file nor WebPGetInfo accepts.
WebpBytes == 1
TgsBytes == 2
CorruptBytes == 9

\* GzDecoder: the decompressed lottie document of a well-formed .tgs payload.
GzDecode(b) == b + 10

\* lottie2gif::convert writes the gif rendering of the animation into the
\* cleared sticker_image.
lottie2gif_convert(doc) == doc + 10

\* Animation::size and WebPGetInfo: the pixel dimensions.
AnimationSize(doc) == <<doc * 8, doc * 8>>
webp_get_info(b) == <<b * 64, b * 32>>

\* Sha512 over the payload: a digest, injective on the payloads of the model.
Sha512(b) == (b * 7 + 3) % 31

\* Vec::len of a payload.
PayloadLen(b) == b * 100 + 4

\* Path::extension / str::ends_with on a file path, kept as its list of
\* dot-separated suffixes ("stickers/file_1.tgs" is <<"tgs">>).
ends_with(file_path, ext) == file_path # <<>> /\ file_path[Len(file_path)] = ext
extension(file_path) == IF file_path = <<>> THEN "" ELSE file_path[Len(file_path)]

\* The sticker files Telegram serves in this model: a static sticker and an
\* animated one, under the file id id.
WebpSticker(id) == [file_id |-> id, file_path |-> <<"webp">>, data |-> WebpBytes]
TgsSticker(id) == [file_id |-> id, file_path |-> <<"tgs">>, data |-> TgsBytes]

\* The packs Telegram serves: pack "a" is static, static, animated, static,
\* ...; any other pack is animated, static, static, animated, ...; each cut
\* to any length up to MaxStickers.  Pack "a" holds the same bytes twice, and
\* both packs hold the same bytes.
TgSticker(name, i) ==
    IF name = "a"
    THEN (IF i % 3 = 0 THEN TgsSticker(<<name, i>>) ELSE WebpSticker(<<name, i>>))
    ELSE (IF i % 3 = 1 THEN TgsSticker(<<name, i>>) ELSE WebpSticker(<<name, i>>))

TgPacks(name) ==
    { [i \in 1..n |-> TgSticker(name, i)] : n \in 0..MaxStickers }

RECURSIVE SeqsUpTo(_, _)
SeqsUpTo(S, n) ==
    IF n = 0 THEN { <<>> }
    ELSE LET shorter == SeqsUpTo(S, n - 1)
         IN shorter \cup { Append(s, x) : s \in { t \in shorter : Len(t) = n - 1 }, x \in S }

\* Command-line arguments: an accepted prefix and the rest of the string.
PackArgs ==
    { [prefix |-> "https://t.me/addstickers/", rest |-> "a"],
      [prefix |-> "tg://addstickers?set=", rest |-> "b"],
      [prefix |-> "t.me/addstickers/", rest |-> "c"] }

\* str::strip_prefix
strip_prefix(s, p) == IF s.prefix = p THEN <<s.rest>> ELSE <<>>

\* Lines of the database file.
JsonLine(h, u) == [kind |-> "json", hash |-> h, url |-> u]
MalformedLine == [kind |-> "malformed", hash |-> 0, url |-> <<>>]
BadUtf8Line == [kind |-> "badutf8", hash |-> 0, url |-> <<>>]

OldUrl == <<"mxc", "old", 0>>
StartLines == { JsonLine(Sha512(WebpBytes), OldUrl), MalformedLine, BadUtf8Line }


(***************************************************************************)
(* State.                                                                  *)
(***************************************************************************)
VARIABLES
    pc,             \* where the command-line run stands
    error,          \* the error run returned, once pc is "err"
    opt,            \* Opt: packs (still to validate), save, noupload, noformat
    packs,          \* run: the validated pack names
    pool,           \* rayon: the number of worker threads
    db_file,        \* the file DATABASE_FILE: state (NotFound, Denied, Ok) and lines
    db_writable,    \* whether the file can be opened (or created) for appending
    stickerpack,    \* import_pack: the Telegram pack being imported
    database_tree,  \* import_pack: the BTreeMap hash -> url
    database,       \* import_pack: the Option<File> opened for appending
    unit,           \* import_pack: the per-sticker closures of the parallel map
    stickers,       \* import_pack: the collected Vec<Sticker>
    origin,         \* for each element of stickers, the position it came from
    pb,             \* the progress bar: the positions of its "finish sticker" lines
    warnings,       \* import_pack: the line numbers of the "can not be read" warnings
    appended,       \* import_pack: the HashUrl lines written by this call
    collected,      \* import_pack: whether the parallel map has been collected
    manifest,       \* the <name>.json files written so far (their pack names)
    lib_pc,         \* where the library's get + import stands
    self,           \* StickerPack::import: the pack (self)
    futures,        \* StickerPack::import: the sticker futures under join_all
    ok_stickers,    \* StickerPack::import: the values of the Ok results
    ok_origin,      \* for each element of ok_stickers, the index it came from
    err_stickers,   \* StickerPack::import: the (index, error) of the Err results
    feature_log,    \* whether the library is built with the feature "log"
    lib_warned      \* StickerPack::import: whether "imported pack .. is empty" was logged

cli_vars == <<pc, error, opt, packs, pool, db_file, db_writable, stickerpack,
              database_tree, database, unit, stickers, origin, pb, warnings, appended,
              collected, manifest>>
lib_vars == <<lib_pc, self, futures, ok_stickers, ok_origin, err_stickers, feature_log,
              lib_warned>>
vars == <<cli_vars, lib_vars>>

NoPack == [name |-> "", stickers |-> <<>>]
NoSticker ==
    [file_hash |-> 0, mxc_url |-> <<>>, file_id |-> <<>>, width |-> 0, height |-> 0,
     file_size |-> 0, mimetype |-> <<>>]

\* A closure of the parallel map: not yet taken by a worker, running, or
\* returned.  hit and upload record whether database_tree held the hash and
\* whether upload_to_matrix was called, sent the payload it was called with
\* (NoBytes when it was not called).
NoBytes == 0
Queued ==
    [st |-> "queued", err |-> "", sticker |-> NoSticker, hit |-> FALSE, upload |-> FALSE,
     sent |-> NoBytes]
Running ==
    [st |-> "running", err |-> "", sticker |-> NoSticker, hit |-> FALSE, upload |-> FALSE,
     sent |-> NoBytes]
Err(e, up) ==
    [st |-> "err", err |-> e, sticker |-> NoSticker, hit |-> FALSE, upload |-> up # NoBytes,
     sent |-> up]
OkNone ==
    [st |-> "none", err |-> "", sticker |-> NoSticker, hit |-> FALSE, upload |-> FALSE,
     sent |-> NoBytes]
OkSome(s, h, image) ==
    [st |-> "some", err |-> "", sticker |-> s, hit |-> h, upload |-> ~h,
     sent |-> IF h THEN NoBytes ELSE image]

\* Mutant of Terminal: a closure that returned an error never counts as done.
TerminalOnlyOk(u) == u.st \in {"none", "some"}

Terminal(u) == u.st \in {"err", "none", "some"}


(***************************************************************************)
(* import_pack: the closure of the parallel map (one sticker).             *)
(***************************************************************************)

\* What the outside world answers to one closure: the download of the
\* sticker file (fails, returns bytes that do not decode, or returns the
\* file), fs::write of the saved copy, and upload_to_matrix.
ExtOutcomes ==
    [fetch : {"ok", "corrupt", "fail"}, save : BOOLEAN, upload : BOOLEAN]

\* The answers that matter under the options o: nothing is saved without
\* --save and nothing is uploaded with --noupload.
ExtFor(o) ==
    { e \in ExtOutcomes : (~o.save => e.save) /\ (o.noupload => e.upload) }

\* Mutant of Normalize: ".gif" is appended to the path of every .tgs file,
\* converted or not.
NormalizeAlwaysRenames(file_path, sticker_image, noformat) ==
    IF sticker_image = CorruptBytes
    THEN [ok |-> FALSE, image |-> sticker_image, file_path |-> file_path, size |-> <<0, 0>>]
    ELSE IF ends_with(file_path, "tgs")
    THEN [ok |-> TRUE,
          image |-> IF noformat THEN sticker_image
                    ELSE lottie2gif_convert(GzDecode(sticker_image)),
          file_path |-> Append(file_path, "gif"),
          size |-> AnimationSize(GzDecode(sticker_image))]
    ELSE [ok |-> TRUE, image |-> sticker_image, file_path |-> file_path,
          size |-> webp_get_info(sticker_image)]

\* Mutant of Normalize: the gif is not written back into sticker_image.
NormalizeKeepsDownload(file_path, sticker_image, noformat) ==
    IF sticker_image = CorruptBytes
    THEN [ok |-> FALSE, image |-> sticker_image, file_path |-> file_path, size |-> <<0, 0>>]
    ELSE IF ends_with(file_path, "tgs")
    THEN [ok |-> TRUE, image |-> sticker_image,
          file_path |-> IF noformat THEN file_path ELSE Append(file_path, "gif"),
          size |-> AnimationSize(GzDecode(sticker_image))]
    ELSE [ok |-> TRUE, image |-> sticker_image, file_path |-> file_path,
          size |-> webp_get_info(sticker_image)]

\* "convert sticker from lottie to gif if neccessary": the payload, the file
\* path and the dimensions after the step, or ok = FALSE when a `?` returns.
Normalize(file_path, sticker_image, noformat) ==
    IF ends_with(file_path, "tgs")
    THEN IF sticker_image = CorruptBytes
         THEN [ok |-> FALSE, image |-> sticker_image, file_path |-> file_path, size |-> <<0, 0>>]
         ELSE LET sticker == GzDecode(sticker_image)
                  size == AnimationSize(sticker)
              IN IF ~noformat
                 THEN [ok |-> TRUE, image |-> lottie2gif_convert(sticker),
                       file_path |-> Append(file_path, "gif"), size |-> size]
                 ELSE [ok |-> TRUE, image |-> sticker_image, file_path |-> file_path,
                       size |-> size]
    ELSE IF sticker_image = CorruptBytes
         THEN [ok |-> FALSE, image |-> sticker_image, file_path |-> file_path, size |-> <<0, 0>>]
         ELSE [ok |-> TRUE, image |-> sticker_image, file_path |-> file_path,
               size |-> webp_get_info(sticker_image)]

\* upload_to_matrix: the homeserver answers every upload with a new mxc url.
upload_to_matrix(pack_name, i) == <<"mxc", pack_name, i>>

\* Mutant of MxcUrl: the url of an upload, whatever the map holds.
MxcUrlAlwaysUpload(tree, hash, pack_name, i) == upload_to_matrix(pack_name, i)

\* The lookup of the hash and, on a miss, the upload.
MxcUrl(tree, hash, pack_name, i) ==
    IF hash \in DOMAIN tree THEN tree[hash] ELSE upload_to_matrix(pack_name, i)

\* Mutant of StickerClosure: the closure without its `if !opt.noupload`.
StickerClosureUploadsAnyway(i, tg_sticker, pack_name, o, tree, ext) ==
    IF ext.fetch = "fail" THEN Err("fetch", NoBytes)
    ELSE
    LET downloaded == IF ext.fetch = "corrupt" THEN CorruptBytes ELSE tg_sticker.data
        n == Normalize(tg_sticker.file_path, downloaded, o.noformat)
    IN  IF ~n.ok THEN Err("normalize", NoBytes)
        ELSE IF o.save /\ ~ext.save THEN Err("save", NoBytes)
        ELSE IF extension(n.file_path) = "" THEN Err("mimetype", NoBytes)
        ELSE
        LET hash == Sha512(n.image)
            hit == hash \in DOMAIN tree
        IN  IF ~hit /\ ~ext.upload THEN Err("upload", n.image)
            ELSE OkSome([file_hash |-> hash,
                         mxc_url |-> MxcUrl(tree, hash, pack_name, i),
                         file_id |-> tg_sticker.file_id,
                         width |-> n.size[1], height |-> n.size[2],
                         file_size |-> PayloadLen(n.image),
                         mimetype |-> <<"image", extension(n.file_path)>>], hit, n.image)

\* The closure `|(i, tg_sticker)| { ... }` of the parallel map, for the
\* sticker at position i (from 1) of the pack.
StickerClosure(i, tg_sticker, pack_name, o, tree, ext) ==
    IF ext.fetch = "fail" THEN Err("fetch", NoBytes)
    ELSE
    LET downloaded == IF ext.fetch = "corrupt" THEN CorruptBytes ELSE tg_sticker.data
        n == Normalize(tg_sticker.file_path, downloaded, o.noformat)
    IN  IF ~n.ok THEN Err("normalize", NoBytes)
        ELSE IF o.save /\ ~ext.save THEN Err("save", NoBytes)
        ELSE IF o.noupload THEN OkNone
        ELSE IF extension(n.file_path) = "" THEN Err("mimetype", NoBytes)
        ELSE
        LET hash == Sha512(n.image)
            mimetype == <<"image", extension(n.file_path)>>
            hit == hash \in DOMAIN tree
        IN  IF ~hit /\ ~ext.upload THEN Err("upload", n.image)
            ELSE OkSome([file_hash |-> hash,
                         mxc_url |-> MxcUrl(tree, hash, pack_name, i),
                         file_id |-> tg_sticker.file_id,
                         width |-> n.size[1], height |-> n.size[2],
                         file_size |-> PayloadLen(n.image),
                         mimetype |-> mimetype], hit, n.image)


(***************************************************************************)
(* import_pack: loading the database file.                                 *)
(***************************************************************************)

EmptyTree == [h \in {} |-> <<>>]

\* Mutant of TreeInsert: an entry already in the map is kept.
TreeInsertKeepFirst(tree, hash, url) ==
    [h \in DOMAIN tree \cup {hash} |-> IF h \in DOMAIN tree THEN tree[h] ELSE url]

\* BTreeMap::insert
TreeInsert(tree, hash, url) ==
    [h \in DOMAIN tree \cup {hash} |-> IF h = hash THEN url ELSE tree[h]]

\* The loop over bufreader.lines().enumerate(), from line k on: `line?`
\* returns the error of a line that is not valid UTF-8, a line that
\* serde_json cannot parse is warned about with its number, any other line
\* is inserted.
RECURSIVE LoadLines(_, _, _, _)
LoadLines(lines, k, tree, warned) ==
    IF k > Len(lines) THEN [ok |-> TRUE, tree |-> tree, warned |-> warned]
    ELSE IF lines[k].kind = "badutf8" THEN [ok |-> FALSE, tree |-> tree, warned |-> warned]
    ELSE IF lines[k].kind = "json"
         THEN LoadLines(lines, k + 1, TreeInsert(tree, lines[k].hash, lines[k].url), warned)
         ELSE LoadLines(lines, k + 1, tree, Append(warned, k))

\* Mutant of LoadDatabase: a file that cannot be opened counts as missing.
LoadDatabaseAnyErrorAsMissing(file) ==
    IF file.state # "Ok" THEN [ok |-> TRUE, tree |-> EmptyTree, warned |-> <<>>]
    ELSE LoadLines(file.lines, 1, EmptyTree, <<>>)

\* match File::open(&database_file) { ... }
LoadDatabase(file) ==
    IF file.state = "NotFound" THEN [ok |-> TRUE, tree |-> EmptyTree, warned |-> <<>>]
    ELSE IF file.state = "Denied" THEN [ok |-> FALSE, tree |-> EmptyTree, warned |-> <<>>]
    ELSE LoadLines(file.lines, 1, EmptyTree, <<>>)

\* OpenOptions::new().write(true).append(true).create(true).open(..): the
\* file exists afterwards when the open succeeded.
OpenForAppend(file, writable) ==
    IF writable /\ file.state = "NotFound" THEN [state |-> "Ok", lines |-> <<>>] ELSE file

(***************************************************************************)
(* run: the arguments.                                                     *)
(***************************************************************************)

\* Mutant of PopPacks: an argument that has neither prefix is skipped.
RECURSIVE PopPacksSkipsBad(_, _)
PopPacksSkipsBad(args, acc) ==
    IF args = <<>> THEN [exit |-> FALSE, args |-> args, packs |-> acc]
    ELSE LET pack == args[Len(args)]
             rest == SubSeq(args, 1, Len(args) - 1)
             id1 == strip_prefix(pack, "https://t.me/addstickers/")
             id == IF id1 = <<>> THEN strip_prefix(pack, "tg://addstickers?set=") ELSE id1
         IN IF id = <<>> THEN PopPacksSkipsBad(rest, acc)
            ELSE PopPacksSkipsBad(rest, Append(acc, id[1]))

\* The loop `while let Some(pack) = opt.packs.pop()`: Vec::pop takes the last
\* argument; one that has neither prefix ends the process with exit(1).
RECURSIVE PopPacks(_, _)
PopPacks(args, acc) ==
    IF args = <<>> THEN [exit |-> FALSE, args |-> args, packs |-> acc]
    ELSE LET pack == args[Len(args)]
             rest == SubSeq(args, 1, Len(args) - 1)
             id1 == strip_prefix(pack, "https://t.me/addstickers/")
             id == IF id1 = <<>> THEN strip_prefix(pack, "tg://addstickers?set=") ELSE id1
         IN IF id = <<>> THEN [exit |-> TRUE, args |-> rest, packs |-> acc]
            ELSE PopPacks(rest, Append(acc, id[1]))


(***************************************************************************)
(* The command-line run.                                                   *)
(***************************************************************************)

\* The argument lists of a run: at least one pack (clap: required = true),
\* no pack named twice.
ArgLists ==
    { a \in SeqsUpTo(PackArgs, MaxPacks) :
        a # <<>> /\ \A i, j \in 1..Len(a) : i # j => a[i] # a[j] }

\* rayon's global pool has one worker per core.
PoolSizes == {1, 2}

StartFiles ==
    { [state |-> "NotFound", lines |-> <<>>], [state |-> "Denied", lines |-> <<>>] }
    \cup { [state |-> "Ok", lines |-> l] : l \in SeqsUpTo(StartLines, MaxLines) }

LibIdle ==
    /\ lib_pc = "off"
    /\ self = NoPack
    /\ futures = <<>>
    /\ ok_stickers = <<>>
    /\ ok_origin = <<>>
    /\ err_stickers = <<>>
    /\ feature_log = FALSE
    /\ lib_warned = FALSE

\* The start of the command-line program.
InitCli ==
    /\ LibIdle
    /\ pc = "start"
    /\ error = ""
    /\ collected = FALSE
    /\ opt \in [packs : ArgLists, save : BOOLEAN, noupload : BOOLEAN, noformat : BOOLEAN]
    /\ packs = <<>>
    /\ pool \in PoolSizes
    /\ db_file \in StartFiles
    /\ db_writable \in BOOLEAN
    /\ stickerpack = NoPack
    /\ database_tree = EmptyTree
    /\ database = "None"
    /\ unit = <<>>
    /\ stickers = <<>>
    /\ origin = <<>>
    /\ pb = <<>>
    /\ warnings = <<>>
    /\ appended = <<>>
    /\ manifest = {}

locals == <<stickerpack, database_tree, database, unit, stickers, origin, pb, warnings,
            appended, collected>>

\* run, up to the loop over the validated packs: load_config_file()? returns
\* its error, matrix::whoami(..).expect(..) panics when the homeserver does
\* not answer, exit(1) on a bad argument.
RunArgs ==
    /\ pc = "start"
    /\ \E config \in BOOLEAN, whoami \in BOOLEAN :
        LET r == PopPacks(opt.packs, <<>>)
        IN  IF ~config
            THEN pc' = "err" /\ error' = "load config" /\ UNCHANGED <<opt, packs>>
            ELSE IF ~opt.noupload /\ ~whoami
            THEN pc' = "panic" /\ UNCHANGED <<error, opt, packs>>
            ELSE /\ opt' = [opt EXCEPT !.packs = r.args]
                 /\ packs' = r.packs
                 /\ pc' = IF r.exit THEN "exit" ELSE "import"
                 /\ error' = error
    /\ UNCHANGED <<pool, db_file, db_writable, locals, manifest, lib_vars>>

\* import_pack, up to the parallel map: the pack is fetched from Telegram
\* (any pack of the model, or an error), the directory of the saved copies is
\* created, the database file is read into database_tree and opened for
\* appending.  Every `?` and `return Err` ends import_pack, and with it run.
ImportPackBegin ==
    /\ pc = "import"
    /\ packs # <<>>
    /\ packs' = Tail(packs)
    /\ \E got \in BOOLEAN, ss \in TgPacks(Head(packs)), mkdir \in BOOLEAN :
        LET loaded == LoadDatabase(db_file)
        IN  IF ~got
            THEN pc' = "err" /\ error' = "getStickerSet" /\ UNCHANGED <<db_file, locals>>
            ELSE IF opt.save /\ ~mkdir
            THEN pc' = "err" /\ error' = "create_dir_all" /\ UNCHANGED <<db_file, locals>>
            ELSE IF ~loaded.ok
            THEN /\ pc' = "err"
                 /\ error' = IF db_file.state = "Denied" THEN "open database"
                                                         ELSE "read database line"
                 /\ UNCHANGED <<db_file, locals>>
            ELSE /\ pc' = "parallel"
                 /\ error' = error
                 /\ collected' = FALSE
                 /\ stickerpack' = [name |-> Head(packs), stickers |-> ss]
                 /\ database_tree' = loaded.tree
                 /\ warnings' = loaded.warned
                 /\ db_file' = OpenForAppend(db_file, db_writable)
                 /\ database' = IF db_writable THEN "Some" ELSE "None"
                 /\ unit' = [i \in 1..Len(ss) |-> Queued]
                 /\ stickers' = <<>>
                 /\ origin' = <<>>
                 /\ pb' = <<>>
                 /\ appended' = <<>>
    /\ UNCHANGED <<opt, pool, db_writable, manifest, lib_vars>>

\* A worker of the pool takes a closure of the parallel map.
UnitStart(i) ==
    /\ pc = "parallel"
    /\ unit[i].st = "queued"
    /\ Cardinality({ j \in DOMAIN unit : unit[j].st = "running" }) < pool
    /\ unit' = [unit EXCEPT ![i] = Running]
    /\ UNCHANGED <<pc, error, opt, packs, pool, db_file, db_writable, stickerpack,
                   database_tree, database, stickers, origin, pb, warnings, appended,
                   collected, manifest, lib_vars>>

\* The closure returns: with Ok after printing "finish sticker" and
\* pb.inc(1), or with an Err, which filter_map prints.
UnitFinish(i) ==
    /\ pc = "parallel"
    /\ unit[i].st = "running"
    /\ \E ext \in ExtFor(opt) :
        LET res == StickerClosure(i, stickerpack.stickers[i], stickerpack.name, opt,
                                  database_tree, ext)
        IN  /\ unit' = [unit EXCEPT ![i] = res]
            /\ pb' = IF res.st = "err" THEN pb ELSE Append(pb, i)
    /\ UNCHANGED <<pc, error, opt, packs, pool, db_file, db_writable, stickerpack,
                   database_tree, database, stickers, origin, warnings, appended,
                   collected, manifest, lib_vars>>

\* Mutant of DatabaseWrites: the lines are written last sticker first.
DatabaseWritesReversed(o, db, vec) ==
    IF ~o.noupload /\ db = "Some"
    THEN [k \in 1..Len(vec) |->
             [kind |-> "json", hash |-> vec[Len(vec) + 1 - k].file_hash,
              url |-> vec[Len(vec) + 1 - k].mxc_url]]
    ELSE <<>>

\* Mutant of CollectOrder: the stickers in the order their closures returned.
CollectOrderByCompletion(u, done) ==
    SelectSeq(done, LAMBDA i : u[i].st = "some")

\* filter_map(..).collect(): the positions whose closure returned a sticker,
\* in the order of the pack (done, the order the closures finished in, plays
\* no part).
RECURSIVE CollectOrder(_, _)
CollectOrder(u, done) ==
    IF u = <<>> THEN <<>>
    ELSE LET n == Len(u)
             front == CollectOrder(SubSeq(u, 1, n - 1), done)
         IN IF u[n].st = "some" THEN Append(front, n) ELSE front

\* Mutant of HashUrlLine: the other String of the record is written as url.
HashUrlLineFileId(sticker) == JsonLine(sticker.file_hash, sticker.file_id)

\* serde_json::to_string(&HashUrl { hash, url })
HashUrlLine(sticker) == JsonLine(sticker.file_hash, sticker.mxc_url)

\* Mutant of DatabaseWrites: the loop stops one sticker short.
DatabaseWritesButLast(o, db, vec) ==
    IF ~o.noupload /\ db = "Some"
    THEN [k \in 1..(Len(vec) - 1) |-> HashUrlLine(vec[k])]
    ELSE <<>>

\* "write new entries into the database": the lines the loop writes.
DatabaseWrites(o, db, vec) ==
    IF ~o.noupload /\ db = "Some"
    THEN [k \in 1..Len(vec) |-> HashUrlLine(vec[k])]
    ELSE <<>>

\* import_pack after the parallel map: collect, the database writes (a
\* writeln! that fails returns the error, the lines before it stay written)
\* and the pack's json file.
ImportPackFinish ==
    /\ pc = "parallel"
    /\ \A i \in DOMAIN unit : Terminal(unit[i])
    /\ LET order == CollectOrder(unit, pb)
           vec == [k \in 1..Len(order) |-> unit[order[k]].sticker]
           writes == DatabaseWrites(opt, database, vec)
       IN  /\ origin' = order
           /\ stickers' = vec
           /\ collected' = TRUE
           /\ \E k \in 0..Len(writes), saved \in BOOLEAN :
                /\ appended' = SubSeq(writes, 1, k)
                /\ db_file' = [db_file EXCEPT !.lines = db_file.lines \o SubSeq(writes, 1, k)]
                /\ IF k < Len(writes)
                   THEN pc' = "err" /\ error' = "write database" /\ UNCHANGED manifest
                   ELSE IF vec # <<>> /\ ~saved
                   THEN pc' = "err" /\ error' = "write json" /\ UNCHANGED manifest
                   ELSE /\ pc' = IF packs = <<>> THEN "done" ELSE "import"
                        /\ error' = error
                        /\ manifest' =
                             IF vec # <<>>
                             THEN manifest \cup {stickerpack.name}
                             ELSE manifest
    /\ UNCHANGED <<opt, packs, pool, db_writable, stickerpack, database_tree, database,
                   unit, pb, warnings, lib_vars>>

(***************************************************************************)
(* The library: StickerPack::get and StickerPack::import.                  *)
(***************************************************************************)

PackNames == {"a", "b"}

\* The errors a sticker future ends with.
LibErrors == {"download", "upload"}

Pending == [st |-> "pending", value |-> <<>>, err |-> ""]
Ready(ok, v, e) == [st |-> IF ok THEN "ok" ELSE "err", value |-> v, err |-> e]

\* A program that calls the library, on an executor with pool worker threads.
InitLib ==
    /\ pc = "off"
    /\ error = ""
    /\ collected = FALSE
    /\ opt = [packs |-> <<>>, save |-> FALSE, noupload |-> FALSE, noformat |-> FALSE]
    /\ packs = <<>>
    /\ pool \in PoolSizes
    /\ db_file = [state |-> "NotFound", lines |-> <<>>]
    /\ db_writable = FALSE
    /\ stickerpack = NoPack
    /\ database_tree = EmptyTree
    /\ database = "None"
    /\ unit = <<>>
    /\ stickers = <<>>
    /\ origin = <<>>
    /\ pb = <<>>
    /\ warnings = <<>>
    /\ appended = <<>>
    /\ manifest = {}
    /\ lib_pc = "get"
    /\ self = NoPack
    /\ futures = <<>>
    /\ ok_stickers = <<>>
    /\ ok_origin = <<>>
    /\ err_stickers = <<>>
    /\ feature_log \in BOOLEAN
    /\ lib_warned = FALSE

\* The loop of StickerPack::get over pack.stickers.iter_mut().enumerate().
StampStickers(name, ss) ==
    [k \in 1..Len(ss) |->
        [file_id |-> ss[k].file_id, pack_name |-> name, positon |-> k - 1]]

\* StickerPack::get: the answer of getStickerSet, its stickers stamped with
\* the pack's name and their index when it is a pack.
StickerPackGet ==
    /\ lib_pc = "get"
    /\ \E name \in PackNames, got \in BOOLEAN :
      \E ss \in TgPacks(name) :
        IF got
        THEN lib_pc' = "import" /\ self' = [name |-> name, stickers |-> StampStickers(name, ss)]
        ELSE lib_pc' = "err" /\ self' = self
    /\ UNCHANGED <<cli_vars, futures, ok_stickers, ok_origin, err_stickers, feature_log,
                   lib_warned>>

\* StickerPack::import up to join_all(..).await: one future per sticker, all
\* of them polled by join_all.
StickerPackImport ==
    /\ lib_pc = "import"
    /\ lib_pc' = "join"
    /\ futures' = [k \in 1..Len(self.stickers) |-> Pending]
    /\ UNCHANGED <<cli_vars, self, ok_stickers, ok_origin, err_stickers, feature_log,
                   lib_warned>>

\* The future of the sticker at index k - 1 completes, with the imported
\* sticker or with an error.
FutureReady(k) ==
    /\ lib_pc = "join"
    /\ futures[k].st = "pending"
    /\ \E ok \in BOOLEAN, e \in LibErrors :
        futures' = [futures EXCEPT ![k] =
                       IF ok THEN Ready(TRUE, self.stickers[k].file_id, "")
                       ELSE Ready(FALSE, <<>>, e)]
    /\ UNCHANGED <<cli_vars, lib_pc, self, ok_stickers, ok_origin, err_stickers,
                   feature_log, lib_warned>>

\* The loop `for (i, sticker) in stickers.into_iter().enumerate()` over the
\* first n results of join_all: the indices (from 0) pushed to ok_stickers
\* and the (i, err) pushed to err_stickers.
RECURSIVE OkIndices(_, _)
OkIndices(results, n) ==
    IF n = 0 THEN <<>>
    ELSE IF results[n].st = "ok" THEN Append(OkIndices(results, n - 1), n - 1)
         ELSE OkIndices(results, n - 1)

\* Mutant of ErrStickers: the index is counted from 1, as the messages of the
\* command line count.
RECURSIVE ErrStickersFromOne(_, _)
ErrStickersFromOne(results, n) ==
    IF n = 0 THEN <<>>
    ELSE IF results[n].st = "err"
         THEN Append(ErrStickersFromOne(results, n - 1), <<n, results[n].err>>)
         ELSE ErrStickersFromOne(results, n - 1)

\* Mutant of ErrStickers: the errors are dropped, as a filter_map over the
\* Ok results would.
ErrStickersDropped(results, n) == <<>>

RECURSIVE ErrStickers(_, _)
ErrStickers(results, n) ==
    IF n = 0 THEN <<>>
    ELSE IF results[n].st = "err"
         THEN Append(ErrStickers(results, n - 1), <<n - 1, results[n].err>>)
         ELSE ErrStickers(results, n - 1)

\* Mutant of WarnEmpty: the warning is logged for every pack.
WarnEmptyAlways(log, ok) == log

\* #[cfg(feature = "log")] if stickerpack.stickers.is_empty() { warn!(..) }
WarnEmpty(log, ok) == log /\ ok = <<>>

\* StickerPack::import from the return of join_all: the partition, the
\* destination pack built over ok_stickers and the returned
\* (stickerpack, err_stickers).
StickerPackImportFinish ==
    /\ lib_pc = "join"
    /\ \A k \in DOMAIN futures : futures[k].st # "pending"
    /\ lib_pc' = "done"
    /\ LET idx == OkIndices(futures, Len(futures))
       IN  /\ ok_origin' = idx
           /\ ok_stickers' = [j \in 1..Len(idx) |-> futures[idx[j] + 1].value]
           /\ lib_warned' = WarnEmpty(feature_log,
                                      [j \in 1..Len(idx) |-> futures[idx[j] + 1].value])
    /\ err_stickers' = ErrStickers(futures, Len(futures))
    /\ UNCHANGED <<cli_vars, self, futures, feature_log>>

(***************************************************************************)
(* Either program is run.                                                  *)
(***************************************************************************)

Init == InitCli \/ InitLib

Next ==
    \/ RunArgs
    \/ ImportPackBegin
    \/ \E i \in DOMAIN unit : UnitStart(i)
    \/ \E i \in DOMAIN unit : UnitFinish(i)
    \/ ImportPackFinish
    \/ StickerPackGet
    \/ StickerPackImport
    \/ \E k \in DOMAIN futures : FutureReady(k)
    \/ StickerPackImportFinish

Spec == Init /\ [][Next]_vars

\* The run under fair scheduling: rayon's workers take the queued closures
\* and the executor polls the futures, every external call of a closure or
\* a future returns, and the thread that called the parallel map or join_all
\* goes on once its results are there.
Fairness ==
    /\ \A i \in 1..MaxStickers : WF_vars(i \in DOMAIN unit /\ UnitStart(i))
    /\ \A i \in 1..MaxStickers : WF_vars(i \in DOMAIN unit /\ UnitFinish(i))
    /\ WF_vars(ImportPackFinish)
    /\ \A k \in 1..MaxStickers : WF_vars(k \in DOMAIN futures /\ FutureReady(k))
    /\ WF_vars(StickerPackImportFinish)

SpecFair == Spec /\ Fairness

(***************************************************************************)
(* Properties.                                                             *)
(***************************************************************************)

\* The number of times x occurs in the sequence s.
Occurs(s, x) == Cardinality({ k \in DOMAIN s : s[k] = x })

\* The indices of err_stickers.
ErrIndices == [k \in DOMAIN err_stickers |-> err_stickers[k][1]]

\* import_pack returns anyhow::Result<()>: it has a success list (stickers)
\* and no list of failures; the positions of a failure list are none.
CliFailures == <<>>

\* StickerPack::import has returned.
LibDone == lib_pc = "done"

\* import_pack has collected the parallel map, with uploads enabled.
CliCollected == collected /\ ~opt.noupload

\* C1, as claimed: with uploads enabled every sticker position is in exactly
\* one of the success list and the failure list, in StickerPack::import and
\* in import_pack.
C1_ExactlyOneList_Claimed ==
    /\ LibDone =>
          \A i \in 0..(Len(futures) - 1) :
              Occurs(ok_origin, i) + Occurs(ErrIndices, i) = 1
    /\ CliCollected =>
          \A i \in DOMAIN unit :
              Occurs(origin, i) + Occurs(CliFailures, i) = 1

\* C1, amended: StickerPack::import puts every sticker index in exactly one
\* of ok_stickers and err_stickers.  import_pack, with uploads enabled, puts
\* the position of every closure that returned a sticker exactly once in its
\* success list; a closure that returned an error is in no list (its error
\* is printed), and every closure returned one or the other.
C1_ExactlyOneList ==
    /\ LibDone =>
          /\ \A i \in 0..(Len(futures) - 1) :
                 Occurs(ok_origin, i) + Occurs(ErrIndices, i) = 1
          /\ Len(ok_stickers) = Len(ok_origin)
          /\ Len(ok_stickers) + Len(err_stickers) = Len(self.stickers)
    /\ CliCollected =>
          /\ \A i \in DOMAIN unit :
                 /\ unit[i].st \in {"some", "err"}
                 /\ Occurs(origin, i) = IF unit[i].st = "some" THEN 1 ELSE 0
          /\ Len(stickers) = Len(origin)
          /\ \A k \in DOMAIN origin : origin[k] \in DOMAIN unit

\* C1, witness: StickerPack::import returned with a sticker in each list.
C1_Witness ==
    LibDone /\ ok_stickers # <<>> /\ err_stickers # <<>>

\* C2: whatever order the closures (the futures) complete in, the success
\* list is in the order of the pack: the positions its elements came from
\* increase, and each element is the sticker of its position.
C2_SuccessOrder ==
    /\ collected =>
          /\ \A j, k \in DOMAIN origin : j < k => origin[j] < origin[k]
          /\ \A k \in DOMAIN origin :
                 unit[origin[k]].st = "some" /\ stickers[k] = unit[origin[k]].sticker
    /\ LibDone =>
          /\ \A j, k \in DOMAIN ok_origin : j < k => ok_origin[j] < ok_origin[k]
          /\ \A k \in DOMAIN ok_origin :
                 ok_stickers[k] = self.stickers[ok_origin[k] + 1].file_id

\* C2, witness: two closures returned stickers in the reverse of the pack's
\* order, and the map was collected.
C2_Witness ==
    /\ collected
    /\ Len(stickers) >= 2
    /\ \E j, k \in DOMAIN pb : j < k /\ pb[j] > pb[k]
                                 /\ unit[pb[j]].st = "some" /\ unit[pb[k]].st = "some"


\* What every answer of the outside world being good looks like.
AllOk == [fetch |-> "ok", save |-> TRUE, upload |-> TRUE]

\* The record the closure of position i returns when nothing fails.
RecordAlone(i) ==
    StickerClosure(i, stickerpack.stickers[i], stickerpack.name, opt, database_tree,
                   AllOk).sticker

\* C3, as claimed: whatever set of stickers fails, every other sticker gives
\* its record unchanged, and the failure list holds exactly one
\* (position, error) for every failed sticker, in StickerPack::import and in
\* import_pack.
C3_PartialFailure_Claimed ==
    /\ LibDone =>
          \A k \in DOMAIN futures :
              IF futures[k].st = "err"
              THEN Occurs(err_stickers, <<k - 1, futures[k].err>>) = 1
                   /\ Occurs(ErrIndices, k - 1) = 1
              ELSE Occurs(ErrIndices, k - 1) = 0
    /\ CliCollected =>
          \A i \in DOMAIN unit :
              IF unit[i].st = "err"
              THEN Occurs(CliFailures, i) = 1
              ELSE unit[i].sticker = RecordAlone(i)

\* C3, amended: in StickerPack::import every future that ended Ok has its
\* value in ok_stickers, and err_stickers holds exactly one (index, error)
\* for every future that ended Err, with the index of the sticker in the
\* pack and the future's own error.  In import_pack every closure that did
\* not fail returns the record it returns when no sticker fails, and that
\* record is in the success list; a failed closure leaves no entry.
C3_PartialFailure ==
    /\ LibDone =>
          /\ \A k \in DOMAIN futures :
                 IF futures[k].st = "err"
                 THEN /\ Occurs(err_stickers, <<k - 1, futures[k].err>>) = 1
                      /\ Occurs(ErrIndices, k - 1) = 1
                      /\ Occurs(ok_origin, k - 1) = 0
                 ELSE /\ Occurs(ErrIndices, k - 1) = 0
                      /\ \E j \in DOMAIN ok_origin :
                            ok_origin[j] = k - 1 /\ ok_stickers[j] = futures[k].value
          /\ \A j \in DOMAIN err_stickers : err_stickers[j][1] \in 0..(Len(futures) - 1)
    /\ CliCollected =>
          \A i \in DOMAIN unit :
              IF unit[i].st = "err"
              THEN Occurs(origin, i) = 0
              ELSE /\ unit[i].sticker = RecordAlone(i)
                   /\ \E k \in DOMAIN origin : origin[k] = i /\ stickers[k] = RecordAlone(i)

\* C3, witness: StickerPack::import returned for a pack whose first sticker
\* failed and whose second did not.
C3_Witness ==
    /\ LibDone
    /\ Len(futures) >= 2
    /\ futures[1].st = "err"
    /\ futures[2].st = "ok"

\* The lines of the database file that import_pack read: all but the ones
\* this call wrote.
LoadedLines == SubSeq(db_file.lines, 1, Len(db_file.lines) - Len(appended))

\* The url of the last line of lines that holds the hash h.
LastUrl(lines, h) ==
    LET at == { k \in DOMAIN lines : lines[k].kind = "json" /\ lines[k].hash = h }
        last == CHOOSE k \in at : \A m \in at : m <= k
    IN  lines[last].url

OnFile(lines, h) == \E k \in DOMAIN lines : lines[k].kind = "json" /\ lines[k].hash = h

LookupHash(i) ==
    Sha512(Normalize(stickerpack.stickers[i].file_path, stickerpack.stickers[i].data,
                     opt.noformat).image)

\* C5: a closure whose hash is in database_tree when it looks it up calls no
\* upload, returns a record with exactly the stored url, and that record is
\* in the success list once the map is collected; an upload is only called
\* for a hash the map does not hold.
C5_HitSkipsUpload ==
    pc # "off" =>
        \A i \in DOMAIN unit :
            /\ unit[i].upload => LookupHash(i) \notin DOMAIN database_tree
            /\ (unit[i].st = "some" /\ unit[i].sticker.file_hash \in DOMAIN database_tree)
               => /\ unit[i].hit
                  /\ ~unit[i].upload
                  /\ unit[i].sticker.file_hash = LookupHash(i)
                  /\ unit[i].sticker.mxc_url = database_tree[unit[i].sticker.file_hash]
            /\ (unit[i].hit /\ collected)
               => \E k \in DOMAIN stickers : origin[k] = i /\ stickers[k] = unit[i].sticker

\* C5, witness: a hit among the collected stickers.
C5_Witness ==
    /\ collected
    /\ \E k \in DOMAIN stickers :
          unit[origin[k]].hit /\ stickers[k].mxc_url = database_tree[stickers[k].file_hash]

\* The lines of the stickers of the success list that were misses.
MissLines ==
    LET miss == SelectSeq(origin, LAMBDA i : ~unit[i].hit)
    IN  [k \in DOMAIN miss |-> HashUrlLine(unit[miss[k]].sticker)]

\* C6, as claimed: import_pack, its database open, appends exactly the
\* successes that were misses, once each, and no success that was a hit.
C6_AppendsOnlyMisses_Claimed ==
    (CliCollected /\ database = "Some" /\ pc # "err") => appended = MissLines

\* The lines import_pack writes for the stickers of the success list.
StickerLines == [k \in DOMAIN stickers |-> HashUrlLine(stickers[k])]

IsPrefix(a, b) == Len(a) <= Len(b) /\ a = SubSeq(b, 1, Len(a))

\* C7: while a closure of the parallel map has not returned, neither
\* database_tree nor the database file is written; the lines of the file
\* only change once every closure of the pack has returned, by the lines of
\* the success list in its order; database_tree is never written after it
\* is loaded.
C7_StoreReadOnlyDuringMap ==
    [][ /\ (pc = "parallel" /\ \E i \in DOMAIN unit : ~Terminal(unit[i]))
           => (database_tree' = database_tree /\ db_file' = db_file)
        /\ pc = "parallel" => database_tree' = database_tree
        /\ db_file'.lines # db_file.lines
           => /\ pc = "parallel"
              /\ \A i \in DOMAIN unit : Terminal(unit[i])
              /\ collected'
              /\ db_file'.lines = db_file.lines \o appended'
              /\ IsPrefix(appended', [k \in DOMAIN stickers' |-> HashUrlLine(stickers'[k])])
      ]_vars

\* C7, witness: two different lines were appended after the map was collected.
C7_Witness ==
    /\ collected
    /\ Len(appended) >= 2
    /\ appended[1] # appended[2]
    /\ appended = StickerLines

\* C8, as claimed: when the database file cannot be opened for appending the
\* import goes on, the lookups hit on every line that was loaded, and the
\* urls of the stickers a pack imported are in the map the next pack of the
\* run looks up.
C8_DegradedMode_Claimed ==
    /\ [](pc = "parallel" /\ ~db_writable
            => /\ database = "None"
               /\ \A k \in DOMAIN db_file.lines :
                      db_file.lines[k].kind = "json"
                      => db_file.lines[k].hash \in DOMAIN database_tree)
    /\ [][ (pc = "import" /\ pc' = "parallel" /\ collected /\ ~opt.noupload /\ ~db_writable)
            => \A k \in DOMAIN stickers : stickers[k].file_hash \in DOMAIN database_tree'
          ]_vars

\* The errors of the database file.
StoreErrors == {"open database", "read database line", "write database"}

\* C9, as claimed: no error of the database file ends import_pack or keeps
\* the pack's json file from being written.
C9_NoStoreAbort_Claimed ==
    /\ pc = "err" => error \notin StoreErrors
    /\ (collected /\ stickers # <<>> /\ error \notin {"write json"})
       => stickerpack.name \in manifest

\* C9, amended: a database file that is missing, or that cannot be opened for
\* appending, does not end import_pack.  A database file that cannot be
\* opened for reading for another reason ends import_pack before the
\* parallel map, and a line that cannot be appended ends it after the map is
\* collected and before the pack's json file is written; either error ends
\* the run.
C9_NoStoreAbort ==
    /\ pc = "parallel" => db_file.state # "Denied"
    /\ (pc = "parallel" /\ ~db_writable) => database = "None"
    /\ (pc = "err" /\ error = "open database") => db_file.state = "Denied"
    /\ (pc = "err" /\ error = "write database")
       => /\ collected
          /\ Len(appended) < Len(stickers)
          /\ stickerpack.name \notin manifest
    /\ (collected /\ stickers # <<>> /\ pc \in {"import", "done"})
       => /\ stickerpack.name \in manifest
          /\ (database = "Some" /\ ~opt.noupload) => appended = StickerLines

\* C9, witness: a line could not be appended after a sticker was imported.
C9_Witness ==
    pc = "err" /\ error = "write database" /\ stickers # <<>> /\ packs # <<>>

\* The numbers of the lines of a file that are no HashUrl.
BadLineNumbers(lines) ==
    SelectSeq([k \in DOMAIN lines |-> k], LAMBDA k : lines[k].kind # "json")

\* C10, as claimed: a missing database file loads as the empty map, and any
\* line that cannot be read (malformed, or not valid UTF-8) is skipped with
\* a warning of its number while every other line is loaded.
C10_TolerantLoad_Claimed ==
    /\ error # "read database line"
    /\ pc = "parallel"
       => /\ warnings = BadLineNumbers(LoadedLines)
          /\ \A k \in DOMAIN LoadedLines :
                 LoadedLines[k].kind = "json" => LoadedLines[k].hash \in DOMAIN database_tree

\* The database file held no line when the run started: the lines a run finds
\* are StartLines, the urls a run writes are those of its own uploads.
StartedEmpty ==
    /\ db_file.state # "Denied"
    /\ \A k \in DOMAIN db_file.lines : db_file.lines[k] \notin StartLines

\* The map a load of the database file gives, as the next import_pack does.
Reload == LoadDatabase(db_file)

\* C11, as claimed: after any appends to a database file that started
\* empty, a load of the file succeeds and maps the hash of every appended
\* line to the url appended with it.
C11_StoreRoundTrip_Claimed ==
    StartedEmpty =>
        /\ Reload.ok
        /\ \A k \in DOMAIN db_file.lines :
               /\ db_file.lines[k].hash \in DOMAIN Reload.tree
               /\ Reload.tree[db_file.lines[k].hash] = db_file.lines[k].url

\* C11, amended: after any appends to a database file that started empty, a
\* load of the file succeeds and maps the hash of every appended line to the
\* url of the last line appended with that hash, which is the url appended
\* with it when no later line has the hash; the map the next import_pack of
\* the run loads is that map, and it maps the hash of every sticker just
\* written to the url of the last sticker written with that hash.
C11_StoreRoundTrip ==
    /\ StartedEmpty =>
           /\ Reload.ok
           /\ \A k \in DOMAIN db_file.lines :
                  /\ db_file.lines[k].hash \in DOMAIN Reload.tree
                  /\ Reload.tree[db_file.lines[k].hash]
                        = LastUrl(db_file.lines, db_file.lines[k].hash)
                  /\ (\A m \in DOMAIN db_file.lines :
                         m > k => db_file.lines[m].hash # db_file.lines[k].hash)
                     => Reload.tree[db_file.lines[k].hash] = db_file.lines[k].url
    /\ (StartedEmpty /\ pc = "parallel") =>
           \A k \in DOMAIN LoadedLines :
               /\ LoadedLines[k].hash \in DOMAIN database_tree
               /\ database_tree[LoadedLines[k].hash] = LastUrl(LoadedLines, LoadedLines[k].hash)
    /\ (CliCollected /\ database = "Some" /\ pc # "err" /\ Reload.ok) =>
           \A k \in DOMAIN stickers :
               /\ stickers[k].file_hash \in DOMAIN Reload.tree
               /\ (\A m \in DOMAIN stickers :
                      m > k => stickers[m].file_hash # stickers[k].file_hash)
                  => Reload.tree[stickers[k].file_hash] = stickers[k].mxc_url

\* C11, witness: the second pack of a run loaded two lines with different
\* hashes that the first pack appended to a file that started empty.
C11_Witness ==
    /\ pc = "parallel"
    /\ StartedEmpty
    /\ Len(LoadedLines) >= 2
    /\ LoadedLines[1].hash # LoadedLines[2].hash
    /\ database_tree[LoadedLines[1].hash] = LoadedLines[1].url
    /\ database_tree[LoadedLines[2].hash] = LoadedLines[2].url

\* The errors of the steps a closure runs under --noupload.
NoUploadErrors == {"fetch", "normalize", "save"}

\* C12: under --noupload no closure calls upload_to_matrix or looks its hash
\* up, none returns a sticker, and each one still downloads, normalizes and
\* (with --save) saves its sticker, returning the error of the step that
\* failed; the success list is empty, there is no failure entry, no line is
\* written to the database file and no json file is written.
C12_NoUpload ==
    (pc # "off" /\ opt.noupload) =>
        /\ \A i \in DOMAIN unit :
               /\ ~unit[i].upload
               /\ ~unit[i].hit
               /\ unit[i].st # "some"
               /\ unit[i].st = "err" => unit[i].err \in NoUploadErrors
               /\ unit[i].err = "save" => opt.save
        /\ collected =>
               /\ Len(unit) = Len(stickerpack.stickers)
               /\ \A i \in DOMAIN unit : unit[i].st \in {"none", "err"}
        /\ stickers = <<>>
        /\ CliFailures = <<>>
        /\ appended = <<>>
        /\ error \notin {"write database", "write json"}
        /\ manifest = {}

\* C12, witness: a pack was imported under --noupload, the first sticker
\* failing its normalization and the second passing every step.
C12_Witness ==
    /\ collected
    /\ opt.noupload
    /\ Len(unit) >= 2
    /\ unit[1].st = "err" /\ unit[1].err = "normalize"
    /\ unit[2].st = "none"

\* C13, as claimed: when getStickerSet fails for a pack of the run, every
\* other pack is still imported: the run does not end while validated packs
\* are left to import.
C13_PackErrorIsolated_Claimed ==
    (pc = "err" /\ error = "getStickerSet") => packs = <<>>

\* The closures of the parallel map a worker has taken and that have not
\* returned, and the sticker futures join_all has polled and that are not
\* ready.
UnitsInFlight == { i \in DOMAIN unit : unit[i].st = "running" }
FuturesInFlight == { k \in DOMAIN futures : futures[k].st = "pending" }

\* C14, as claimed: in import_pack and in StickerPack::import, at every
\* moment at most as many stickers as the pool has workers are started and
\* not finished.
C14_BoundedParallelism_Claimed ==
    /\ Cardinality(UnitsInFlight) <= pool
    /\ Cardinality(FuturesInFlight) <= pool

\* import_pack returned Ok(()) for a pack none of whose closures gave a
\* sticker.
CliEmptyImport == collected /\ stickers = <<>>

\* C15, as claimed: an import with no imported sticker is no error; the
\* destination pack is built with no sticker (StickerPack::import returns
\* it, import_pack writes its json file), the empty pack is warned about,
\* and StickerPack::import returns the failure list.
C15_EmptyPack_Claimed ==
    /\ (LibDone /\ ok_stickers = <<>>) =>
           /\ lib_warned
           /\ Len(err_stickers) = Len(futures)
    /\ (CliEmptyImport /\ pc \in {"import", "done"}) => stickerpack.name \in manifest
    /\ CliEmptyImport => error \notin {"write database", "write json"}

\* C15, amended: StickerPack::import with no imported sticker returns the
\* destination pack with no sticker together with the failure list, which
\* holds every sticker of the pack, and logs the warning exactly when it is
\* built with the feature "log".  import_pack with no imported sticker
\* returns no error of its own, writes no line and no json file, and gives
\* no warning that the pack is empty.
C15_EmptyPack ==
    /\ LibDone =>
           /\ lib_warned <=> (feature_log /\ ok_stickers = <<>>)
           /\ ok_stickers = <<>> =>
                  /\ Len(err_stickers) = Len(futures)
                  /\ \A k \in DOMAIN futures : Occurs(ErrIndices, k - 1) = 1
    /\ lib_pc = "err" => futures = <<>>
    /\ CliEmptyImport =>
           /\ stickerpack.name \notin manifest
           /\ appended = <<>>
           /\ error \notin {"write database", "write json"}

\* C15, witness: StickerPack::import returned an empty destination pack and
\* the failure of each of the two stickers of the pack, and logged the
\* warning.
C15_Witness ==
    /\ LibDone
    /\ ok_stickers = <<>>
    /\ Len(err_stickers) = 2
    /\ lib_warned

\* The sticker at position i was transcoded: a .tgs file, without --noformat.
Transcoded(i) == ends_with(stickerpack.stickers[i].file_path, "tgs") /\ ~opt.noformat

\* The payload the closure of position i holds after its normalization: the
\* gif when the sticker was transcoded, otherwise the download.
FinalBytes(i) ==
    IF Transcoded(i)
    THEN lottie2gif_convert(GzDecode(stickerpack.stickers[i].data))
    ELSE stickerpack.stickers[i].data

\* C16: the hash of a sticker's record is taken over the payload as it is
\* after normalization, which is the payload given to upload_to_matrix and
\* the one whose length is recorded, and not over the download when the
\* sticker was transcoded; the upload comes after the lookup of that hash,
\* on a miss only, and no upload is started for a sticker whose download,
\* normalization, save or mimetype failed.
C16_StepOrder ==
    pc # "off" =>
        \A i \in DOMAIN unit :
            /\ unit[i].st = "some" =>
                   /\ unit[i].sticker.file_hash = Sha512(FinalBytes(i))
                   /\ unit[i].sticker.file_size = PayloadLen(FinalBytes(i))
                   /\ Transcoded(i) =>
                          unit[i].sticker.file_hash # Sha512(stickerpack.stickers[i].data)
            /\ unit[i].upload =>
                   /\ unit[i].sent = FinalBytes(i)
                   /\ Sha512(unit[i].sent) \notin DOMAIN database_tree
                   /\ unit[i].st = "err" => unit[i].err = "upload"
            /\ ~unit[i].upload => unit[i].sent = NoBytes
            /\ unit[i].err \in {"fetch", "normalize", "save", "mimetype"}
                   => ~unit[i].upload /\ ~unit[i].hit

\* C16, witness: a transcoded sticker was uploaded and recorded, in a pack
\* where another sticker failed to be saved.
C16_Witness ==
    /\ pc # "off"
    /\ \E i, j \in DOMAIN unit :
          /\ Transcoded(i)
          /\ unit[i].st = "some"
          /\ unit[i].upload
          /\ unit[j].st = "err" /\ unit[j].err = "save"

\* The closure of position i returned the record of a .tgs file.
TgsRecord(i) ==
    unit[i].st = "some" /\ ends_with(stickerpack.stickers[i].file_path, "tgs")

\* C17, as claimed: the record of a .tgs file is made, under --noformat,
\* over the decompressed document and a renamed path, and otherwise over the
\* gif and the path with ".gif" appended; the mimetype is taken from the
\* extension of that path.
C17_Normalizer_Claimed ==
    pc # "off" =>
        \A i \in DOMAIN unit :
            TgsRecord(i) =>
                IF opt.noformat
                THEN /\ unit[i].sticker.file_hash
                          = Sha512(GzDecode(stickerpack.stickers[i].data))
                     /\ unit[i].sticker.mimetype # <<"image", "tgs">>
                ELSE /\ unit[i].sticker.file_hash
                          = Sha512(lottie2gif_convert(GzDecode(stickerpack.stickers[i].data)))
                     /\ unit[i].sticker.mimetype = <<"image", "gif">>

\* C17, amended: under --noformat the payload of a .tgs file stays the
\* download, still compressed, and its path stays as it is: the record has
\* the hash and the length of the download and the mimetype image/tgs;
\* otherwise the payload is the gif and the path has ".gif" appended: the
\* record has the hash and the length of the gif and the mimetype
\* image/gif.  Either way the dimensions are those of the decompressed
\* document and the payload given to upload_to_matrix is the payload hashed.
C17_Normalizer ==
    pc # "off" =>
        \A i \in DOMAIN unit :
            TgsRecord(i) =>
                LET data == stickerpack.stickers[i].data
                    gif == lottie2gif_convert(GzDecode(data))
                    rec == unit[i].sticker
                IN  /\ <<rec.width, rec.height>> = AnimationSize(GzDecode(data))
                    /\ unit[i].upload => Sha512(unit[i].sent) = rec.file_hash
                    /\ IF opt.noformat
                       THEN /\ rec.file_hash = Sha512(data)
                            /\ rec.file_size = PayloadLen(data)
                            /\ rec.mimetype = <<"image", "tgs">>
                            /\ unit[i].upload => unit[i].sent = data
                       ELSE /\ rec.file_hash = Sha512(gif)
                            /\ rec.file_size = PayloadLen(gif)
                            /\ rec.mimetype = <<"image", "gif">>
                            /\ unit[i].upload => unit[i].sent = gif

\* C17, witness: the record of a .tgs file uploaded under --noformat.
C17_Witness ==
    /\ pc # "off"
    /\ opt.noformat
    /\ \E i \in DOMAIN unit : TgsRecord(i) /\ unit[i].upload

\* Every closure of the parallel map has returned; every future is ready.
AllTerminal == \A i \in DOMAIN unit : Terminal(unit[i])
AllReady == \A k \in DOMAIN futures : futures[k].st # "pending"

\* C18: under fair scheduling, once import_pack has started its parallel map
\* every closure returns, whatever the others return, and import_pack then
\* collects them and returns; once StickerPack::import has started join_all
\* every future gets ready and import returns.
C18_Completes ==
    /\ (pc = "parallel") ~> (pc = "parallel" /\ AllTerminal)
    /\ (pc = "parallel") ~> (collected /\ pc \in {"import", "done", "err"})
    /\ (lib_pc = "join") ~> (lib_pc = "join" /\ AllReady)
    /\ (lib_pc = "join") ~> LibDone

\* C18, witness: the run ended after a pack one of whose closures returned
\* an error and another a sticker.
C18_Witness ==
    /\ pc = "done"
    /\ collected
    /\ \E i, j \in DOMAIN unit : unit[i].st = "err" /\ unit[j].st = "some"

\* The last n lines of the database file.
LastLines(n) == SubSeq(db_file.lines, Len(db_file.lines) - n + 1, Len(db_file.lines))

\* C19: the lines import_pack has written are the last lines of the database
\* file, and the k-th of them holds the hash and the url of the k-th sticker
\* of the success list, whose closure returned a sticker; they are in the
\* order of the list, which is the order of the pack, nothing is written
\* before the map is collected, and every sticker of the list is written
\* when no write failed.
C19_AppendsAreSuccesses ==
    pc # "off" =>
        /\ ~collected => appended = <<>>
        /\ Len(appended) <= Len(stickers)
        /\ Len(appended) <= Len(db_file.lines)
        /\ LastLines(Len(appended)) = appended
        /\ \A k \in DOMAIN appended :
               /\ appended[k].kind = "json"
               /\ appended[k].hash = stickers[k].file_hash
               /\ appended[k].url = stickers[k].mxc_url
               /\ unit[origin[k]].st = "some"
               /\ unit[origin[k]].sticker = stickers[k]
        /\ \A j, k \in DOMAIN appended : j < k => origin[j] < origin[k]
        /\ (CliCollected /\ database = "Some" /\ error # "write database")
               => Len(appended) = Len(stickers)

\* C19, witness: a pack was written whose first sticker failed and whose
\* second did not.
C19_Witness ==
    /\ collected
    /\ Len(unit) >= 2
    /\ unit[1].st = "err"
    /\ unit[2].st = "some"
    /\ Len(appended) = 1
    /\ origin = <<2>>

\* The argument has one of the two prefixes run accepts.
Accepted(pack) ==
    \/ strip_prefix(pack, "https://t.me/addstickers/") # <<>>
    \/ strip_prefix(pack, "tg://addstickers?set=") # <<>>

\* No pack has been fetched, no sticker downloaded or uploaded, and nothing
\* read from or written to the database file or a json file.
NothingImported ==
    /\ stickerpack = NoPack
    /\ unit = <<>>
    /\ stickers = <<>>
    /\ database_tree = EmptyTree
    /\ database = "None"
    /\ appended = <<>>
    /\ manifest = {}
    /\ ~collected

\* C20: run looks at every argument before it imports a pack: when an
\* argument has no accepted prefix the run ends (exit(1), or earlier with
\* the error of the configuration or the panic of whoami) with nothing
\* imported and the database file untouched, and a run that imports a pack
\* has accepted all its arguments.
C20_ValidateFirst ==
    /\ [](pc \in {"start", "exit", "panic"} => NothingImported)
    /\ [](pc \in {"import", "parallel", "done"} => opt.packs = <<>>)
    /\ [][ (pc = "start" /\ \E k \in DOMAIN opt.packs : ~Accepted(opt.packs[k]))
            => /\ pc' \in {"exit", "panic", "err"}
               /\ pc' = "err" => error' = "load config"
               /\ db_file' = db_file
               /\ NothingImported'
          ]_vars
    /\ [][ (pc = "start" /\ pc' = "import")
            => /\ \A k \in DOMAIN opt.packs : Accepted(opt.packs[k])
               /\ Len(packs') = Len(opt.packs)
          ]_vars
    /\ [][ (pc \in {"exit", "panic"}) => vars' = vars ]_vars

\* C20, witness: the run exited on a bad argument after it had accepted
\* another one.
C20_Witness ==
    /\ pc = "exit"
    /\ packs # <<>>
    /\ NothingImported
====
